---- MODULE Spec2Model ----
(***************************************************************************)
(* A model of the travel-agent repository: the intent policy               *)
(* (_enforce_status_rules), the broker Lambda (lambda_handler of           *)
(* lambda/broker/handler.py) over the DynamoDB request table, and the      *)
(* Step Functions workflow declared in infrastructure/stacks/workflow.py   *)
(* with the delivery and error-handler Lambdas, and the intake Lambda with *)
(* the EventBridge rule that hands its events to the broker.               *)
(*                                                                         *)
(* Four specifications share the variables:                                *)
(*   SpecPolicy    the pure policy applied to bounded raw backend outputs  *)
(*   SpecBroker    concurrent broker invocations over the request table    *)
(*   SpecWorkflow  executions of the declared state machine                *)
(*   SpecIngress   submissions through intake, the rule and the broker     *)
(***************************************************************************)
EXTENDS Integers, Sequences, FiniteSets, TLC

VARIABLES
    \* ---- policy ----
    raw,          \* the parsed backend output handed to _enforce_status_rules
    altMissing,   \* another missing_fields list the backend could have asserted
    out,          \* _enforce_status_rules(raw)
    outAlt,       \* _enforce_status_rules(raw with missing_fields := altMissing)
    out2,         \* _enforce_status_rules applied to its own output
    ppc,          \* "input" | "done" | "twice"
    \* ---- broker ----
    inv,          \* broker invocations: position, event, key, result, response
    store,        \* the request table: key -> item
    backendCalls, \* input text -> number of bedrock converse calls made for it
    faults,       \* history: which collaborators have failed so far
    \* ---- ingress ----
    sub,          \* submissions: intake's response, the event and its delivery
    \* ---- workflow ----
    ex,           \* executions: state, context, branch states, history
    handlerLog    \* per execution: the events the error handler was invoked with

policyVars == <<raw, altMissing, out, outAlt, out2, ppc>>
brokerVars == <<inv, backendCalls, faults>>
flowVars   == <<ex, handlerLog>>
vars       == <<raw, altMissing, out, outAlt, out2, ppc, inv, store,
                backendCalls, faults, sub, ex, handlerLog>>

(***************************************************************************)
(* Bounds                                                                  *)
(***************************************************************************)
MaxDay == 2        \* dates are days 1..MaxDay ("YYYY-MM-DD" strings, ordered)
NumInv == 2        \* broker invocations
NumExec == 1       \* workflow executions
NumSub == 1        \* submissions to intake

(***************************************************************************)
(* JSON values.  Every value has the same three fields so that any two can *)
(* be compared.  A date is a non-empty "YYYY-MM-DD" string, whose order is *)
(* the order of its day number n.                                          *)
(***************************************************************************)
JNull    == [t |-> "null", s |-> "", n |-> 0]
JStr(x)  == [t |-> "str",  s |-> x,  n |-> 0]
JNum(k)  == [t |-> "num",  s |-> "", n |-> k]
JDate(d) == [t |-> "date", s |-> "", n |-> d]

\* Python truthiness: bool(v)
Truthy(v) ==
    CASE v.t = "null" -> FALSE
      [] v.t = "str"  -> v.s # ""
      [] v.t = "num"  -> v.n # 0
      [] OTHER        -> TRUE

\* Python: v != 0
NotEqualZeroAlways(v) == TRUE

NotEqualZero(v) == ~(v.t = "num" /\ v.n = 0)

READY == "READY_TO_PROCESS"
NEEDS == "NEEDS_CLARIFICATION"

\* travel_dates: a dict {departure, return}, null (or absent), or a non-dict
DatesNull == [k |-> "null", departure |-> JNull, return |-> JNull]
DatesStr  == [k |-> "str",  departure |-> JNull, return |-> JNull]
DatesDict(d, r) == [k |-> "dict", departure |-> d, return |-> r]

(***************************************************************************)
(* _enforce_status_rules (broker/handler.py 97-126; the script's copy,     *)
(* scripts/extract_travel_intent.py 110-143, is line for line the same).   *)
(* `result` is the parsed dict:                                            *)
(*   exKind  "dict" | "absent" | "null"   the `extracted` key              *)
(*   mfKind  "list" | "absent" | "null"   the `missing_fields` key         *)
(* dict.get returns None for an absent key, so an absent field of          *)
(* `extracted` is JNull.                                                   *)
(***************************************************************************)
DedupNothing(seq, seen) == seq

RECURSIVE Dedup(_, _)
\* list(dict.fromkeys(missing)): first occurrences, order kept
Dedup(seq, seen) ==
    IF seq = <<>> THEN <<>>
    ELSE IF Head(seq) \in seen THEN Dedup(Tail(seq), seen)
    ELSE <<Head(seq)>> \o Dedup(Tail(seq), seen \cup {Head(seq)})

RECURSIVE Join(_)
\* ', '.join(seq)
Join(seq) ==
    IF seq = <<>> THEN ""
    ELSE IF Len(seq) = 1 THEN seq[1]
    ELSE seq[1] \o ", " \o Join(Tail(seq))

\* lines 105-110
TravelDatesValid(td) ==
    /\ td.k = "dict"
    /\ Truthy(td.departure)
    /\ Truthy(td.return)

\* line 99: missing = list(result.get("missing_fields", []))
SeedMissing(result) ==
    IF result.mfKind = "list" THEN result.missing_fields ELSE <<>>

\* lines 99-112: the seed followed by the failed required-field tests
DerivedMissing(result) ==
    LET m0 == SeedMissing(result)
        m1 == IF ~Truthy(result.origin_city) THEN Append(m0, "origin_city") ELSE m0
        m2 == IF ~Truthy(result.destination) THEN Append(m1, "destination") ELSE m1
        m3 == IF ~Truthy(result.budget_cad) /\ NotEqualZero(result.budget_cad)
              THEN Append(m2, "budget_cad") ELSE m2
        m4 == IF ~TravelDatesValid(result.travel_dates)
              THEN Append(m3, "travel_dates") ELSE m3
    IN  m4

\* list(None) at line 99 and None.get at line 101 raise before any assignment
PolicyFaults(result) == result.mfKind = "null" \/ result.exKind = "null"

EnforceStatusRulesKeepStatus(result) ==
    [fault |-> PolicyFaults(result),
     result |-> [result EXCEPT !.mfKind = "list",
                               !.missing_fields = Dedup(DerivedMissing(result), {})]]

EnforceStatusRules(result) ==
    IF PolicyFaults(result)
    THEN [fault |-> TRUE, result |-> result]
    ELSE LET missing == Dedup(DerivedMissing(result), {})
         IN  [fault |-> FALSE,
              result |->
                IF missing # <<>>
                THEN [result EXCEPT
                        !.mfKind = "list",
                        !.missing_fields = missing,
                        !.status = NEEDS,
                        !.clarification_needed =
                            IF ~Truthy(result.clarification_needed)
                            THEN JStr("Missing required fields: " \o Join(missing))
                            ELSE result.clarification_needed]
                ELSE [result EXCEPT
                        !.mfKind = "list",
                        !.missing_fields = missing,
                        !.status = READY,
                        !.clarification_needed = JNull]]

(***************************************************************************)
(* Bounded raw backend outputs                                             *)
(***************************************************************************)
Cities  == {JNull, JStr(""), JStr("Edmonton")}
Dests   == {JNull, JStr("Vancouver")}
Budgets == {JNull, JNum(0), JNum(1500)}
Dates   == {JNull} \cup {JDate(d) : d \in 1..MaxDay}
TravelDatesValues ==
    {DatesNull, DatesStr} \cup {DatesDict(d, r) : d \in Dates, r \in Dates}

AssertedLists ==
    { <<>>, <<"origin_city">>, <<"not_a_travel_request">>,
      <<"travel_dates", "travel_dates">>, <<"budget_cad", "destination">> }

\* meta is _meta.input_tokens, set from the response's usage before the policy runs
MakeRaw(st, mk, mf, ek, o, d, b, td, cl, bw) ==
    [status |-> st, mfKind |-> mk, missing_fields |-> mf, exKind |-> ek,
     origin_city |-> o, destination |-> d, budget_cad |-> b, travel_dates |-> td,
     clarification_needed |-> cl, budget_warning |-> bw, meta |-> JNull]

RawExtracted ==
    {[exKind |-> "dict", origin_city |-> o, destination |-> d, budget_cad |-> b,
      travel_dates |-> td] :
        o \in Cities, d \in Dests, b \in Budgets, td \in TravelDatesValues}
    \cup
    {[exKind |-> k, origin_city |-> JNull, destination |-> JNull,
      budget_cad |-> JNull, travel_dates |-> DatesNull] : k \in {"absent", "null"}}

RawMissing ==
    {[mfKind |-> "list", missing_fields |-> l] : l \in AssertedLists}
    \cup {[mfKind |-> k, missing_fields |-> <<>>] : k \in {"absent", "null"}}

RawOutputs ==
    {MakeRaw(st, m.mfKind, m.missing_fields, e.exKind, e.origin_city,
             e.destination, e.budget_cad, e.travel_dates, cl, bw) :
        st \in {READY, NEEDS}, m \in RawMissing, e \in RawExtracted,
        cl \in {JNull, JStr("Which dates?")}, bw \in {JNull, JStr("Budget is low")}}

\* a complete, consistent request, as the backend reports it
CompleteRaw ==
    MakeRaw(READY, "list", <<>>, "dict", JStr("Edmonton"), JStr("Vancouver"),
            JNum(1500), DatesDict(JDate(1), JDate(2)), JNull, JNull)

\* the value of a result that is not there
NoResult == [status |-> "none"]

NoOut == [fault |-> FALSE, result |-> NoResult]

RequiredFields == {"origin_city", "destination", "budget_cad", "travel_dates"}

\* what the code tests for each required field (lines 101-112)
FieldSatisfied(r, f) ==
    CASE f = "origin_city" -> Truthy(r.origin_city)
      [] f = "destination" -> Truthy(r.destination)
      [] f = "budget_cad"  -> Truthy(r.budget_cad) \/ ~NotEqualZero(r.budget_cad)
      [] OTHER -> TravelDatesValid(r.travel_dates)

(***************************************************************************)
(* SpecPolicy: the policy applied to every bounded raw output              *)
(***************************************************************************)
WithMissing(r, l) == [r EXCEPT !.mfKind = "list", !.missing_fields = l]

\* _enforce_status_rules(parsed), and the same call on a backend output that
\* differs only in the missing_fields it asserts
Normalize ==
    /\ ppc = "input"
    /\ out' = EnforceStatusRules(raw)
    /\ outAlt' = EnforceStatusRules(WithMissing(raw, altMissing))
    /\ ppc' = "done"
    /\ UNCHANGED <<raw, altMissing, out2>>

\* _enforce_status_rules applied to the dict it returned
NormalizeAgain ==
    /\ ppc = "done"
    /\ ~out.fault
    /\ out2' = EnforceStatusRules(out.result)
    /\ ppc' = "twice"
    /\ UNCHANGED <<raw, altMissing, out, outAlt>>

(***************************************************************************)
(* The request table (DynamoDB, workflow.py 25-35).  An item is the set of *)
(* attribute names it carries and their values; an absent item carries no  *)
(* attribute.  put_item replaces the whole item; update_item sets the      *)
(* named attributes, creating the item when there is none.                 *)
(***************************************************************************)
Texts == {"trip A", "trip B"}
CRASH == "FORCE_CRASH"

\* hashlib.sha256(user_input.encode("utf-8")).hexdigest(): injective on Texts
Sha256(t) == "sha256(" \o t \o ")"
Keys == {Sha256(t) : t \in Texts}
\* every key a request of the model can be stored under
TableKeys == Keys \cup {Sha256(CRASH)}

NoItem ==
    [attrs |-> {}, result |-> NoResult, correlationId |-> 0,
     status |-> "", narrative |-> "", errorLen |-> 0]

ItemExists(item) == item.attrs # {}

\* broker/handler.py 230-238
BrokerItem(result, correlation) ==
    [attrs |-> {"requestId", "result", "ttl", "correlationId", "timestamp"},
     result |-> result, correlationId |-> correlation,
     status |-> "", narrative |-> "", errorLen |-> 0]

(***************************************************************************)
(* The generation backend (bedrock converse) as the broker sees it, and    *)
(* extract_travel_intent (broker/handler.py 128-159).                      *)
(***************************************************************************)
NeedsOriginRaw ==
    [CompleteRaw EXCEPT !.status = NEEDS, !.origin_city = JNull,
                        !.missing_fields = <<"origin_city">>,
                        !.clarification_needed = JStr("Which city do you leave from?")]

NullExtractedRaw ==
    [CompleteRaw EXCEPT !.exKind = "null", !.origin_city = JNull,
                        !.destination = JNull, !.budget_cad = JNull,
                        !.travel_dates = DatesNull]

\* what converse can do: raise (ClientError, timeout, a response without
\* output.message.content), or return a text that json.loads rejects, parses
\* to something that is not an object, or parses to an object
\* usage: whether the response carries usage.inputTokens (line 137 reads it
\* with response.get("usage", {}), so it may be missing)
BackendResponses ==
    {[kind |-> "raise", obj |-> NoResult, usage |-> TRUE],
     [kind |-> "unparseable", obj |-> NoResult, usage |-> TRUE],
     [kind |-> "unparseable", obj |-> NoResult, usage |-> FALSE],
     [kind |-> "nonobject", obj |-> NoResult, usage |-> TRUE]}
    \cup {[kind |-> "object", obj |-> o, usage |-> TRUE] :
            o \in {CompleteRaw, NeedsOriginRaw, NullExtractedRaw}}

\* lines 145-151: the dict built when json.loads raises JSONDecodeError
ParseFallback ==
    MakeRaw(NEEDS, "list", <<"parsing_error">>, "dict", JNull, JNull, JNull,
            DatesNull, JStr("System error: Could not parse intent."), JNull)

\* usage.inputTokens of the response
TokensOf(resp) == IF resp.usage THEN JNum(120) ELSE JNull

\* [fault, result]: fault when the function raises
ExtractTravelIntent(resp) ==
    CASE resp.kind = "raise" -> [fault |-> TRUE, result |-> NoResult]
      [] resp.kind = "nonobject" -> [fault |-> TRUE, result |-> NoResult]
      [] resp.kind = "unparseable" ->
            EnforceStatusRules([ParseFallback EXCEPT !.meta = TokensOf(resp)])
      [] OTHER -> EnforceStatusRules([resp.obj EXCEPT !.meta = TokensOf(resp)])

(***************************************************************************)
(* The broker's lambda_handler (broker/handler.py 161-253), one invocation *)
(* per id.  pc: idle -> read -> call -> write -> done, or crashed when an  *)
(* exception leaves the handler.                                           *)
(***************************************************************************)
Invs == 1..NumInv
StoreOutcomes == {"ok", "ClientError", "OtherError"}

IdleInv ==
    [pc |-> "idle", input |-> "", key |-> "",
     readOutcome |-> "", backendOutcome |-> "", writeOutcome |-> "",
     called |-> FALSE, wrote |-> FALSE, hit |-> FALSE,
     result |-> NoResult, code |-> 0, body |-> "", bodyResult |-> NoResult]

Respond(rec, code, body, res) ==
    [rec EXCEPT !.pc = "done", !.code = code, !.body = body, !.bodyResult = res]

\* lines 199-204: the requestId of an EventBridge event (intake/handler.py 42:
\* the sha256 of the input) when there is one, else the sha256 of the input
IntakeRequestId(input) == Sha256(input)

RequestHashOfOtherText(src, input) ==
    IF src = "detail" THEN Sha256(CHOOSE t \in Texts : t # input) ELSE Sha256(input)

RequestHash(src, input) ==
    IF src = "detail" THEN IntakeRequestId(input) ELSE Sha256(input)

\* What comes back from the table is not what was put: the resource API of
\* `dynamodb = boto3.resource("dynamodb")` (line 21) stores a Python number as
\* type N and reads every N back as decimal.Decimal.
JDec(k) == [t |-> "dec", s |-> "", n |-> k]

Deserialize(v) == IF v.t = "num" THEN JDec(v.n) ELSE v

\* a stored result as get_item returns it: budget_cad and _meta.input_tokens
\* are the numbers it can hold
FromStore(result) ==
    [result EXCEPT !.budget_cad = Deserialize(@), !.meta = Deserialize(@)]

\* json.dumps(obj) raises TypeError for a Decimal anywhere in obj
JsonDumpsFaults(result) == result.budget_cad.t = "dec" \/ result.meta.t = "dec"

\* lines 163-204: the event is an EventBridge event (detail) or a direct
\* invocation; None and "" are both `not user_input`
BeginStepNoSentinel(rec, src, input) ==
    IF input = "" THEN Respond(rec, 400, "error", NoResult)
    ELSE [rec EXCEPT !.pc = "read", !.key = RequestHash(src, input)]

BeginStep(rec, src, input) ==
    IF input = CRASH THEN [rec EXCEPT !.pc = "crashed"]
    ELSE IF input = "" THEN Respond(rec, 400, "error", NoResult)
    ELSE [rec EXCEPT !.pc = "read", !.key = RequestHash(src, input)]

Begin(i, src, input) ==
    /\ inv[i].pc = "idle"
    /\ \A j \in Invs : j < i => inv[j].pc # "idle"
    /\ src = "detail" => input # ""
    /\ inv' = [inv EXCEPT ![i] = BeginStep([inv[i] EXCEPT !.input = input], src, input)]
    /\ UNCHANGED <<store, backendCalls, faults>>

\* lines 206-218: get_item; only ClientError is caught
ReadStore(i, outcome) ==
    /\ inv[i].pc = "read"
    /\ LET rec == [inv[i] EXCEPT !.readOutcome = outcome]
           item == store[inv[i].key]
       IN  inv' = [inv EXCEPT ![i] =
             CASE outcome = "ClientError" -> [rec EXCEPT !.pc = "call"]
               [] outcome = "OtherError" -> [rec EXCEPT !.pc = "crashed"]
               [] OTHER ->
                    IF ~ItemExists(item) THEN [rec EXCEPT !.pc = "call"]
                    ELSE IF "result" \notin item.attrs THEN [rec EXCEPT !.pc = "crashed"]
                    ELSE IF JsonDumpsFaults(FromStore(item.result))
                    THEN [rec EXCEPT !.hit = TRUE, !.pc = "crashed"]
                    ELSE Respond([rec EXCEPT !.hit = TRUE], 200, "result",
                                 FromStore(item.result))]
    /\ faults' = [faults EXCEPT !.store = @ \/ outcome # "ok"]
    /\ UNCHANGED <<store, backendCalls>>

\* lines 248-253 after a raise out of extract_travel_intent, else on to the write
BackendStepPersistOnError(rec, resp) ==
    LET r == ExtractTravelIntent(resp)
    IN  [rec EXCEPT !.pc = "write", !.called = TRUE, !.backendOutcome = resp.kind,
                    !.result = IF r.fault THEN ParseFallback ELSE r.result]

BackendStep(rec, resp) ==
    LET r == ExtractTravelIntent(resp)
        called == [rec EXCEPT !.called = TRUE, !.backendOutcome = resp.kind]
    IN  IF r.fault
        THEN Respond([called EXCEPT !.backendOutcome =
                        IF resp.kind = "object" THEN "policyfault" ELSE resp.kind],
                     500, "error", NoResult)
        ELSE [called EXCEPT !.pc = "write", !.result = r.result]

\* lines 220-225
CallBackend(i, resp) ==
    /\ inv[i].pc = "call"
    /\ inv' = [inv EXCEPT ![i] = BackendStep(inv[i], resp)]
    /\ backendCalls' = [backendCalls EXCEPT ![inv[i].input] = @ + 1]
    /\ faults' = [faults EXCEPT !.backend = @ \/ ExtractTravelIntent(resp).fault]
    /\ UNCHANGED store

\* lines 229-237: table.put_item(Item={"requestId": request_hash, ...}) puts the
\* item under its partition key, replacing an item already there
PutItemUnderOtherKey(st, rec, i, outcome) ==
    IF outcome = "ok"
    THEN [st EXCEPT ![CHOOSE k \in Keys : k # rec.key] = BrokerItem(rec.result, i)]
    ELSE st

PutItem(st, rec, i, outcome) ==
    IF outcome = "ok"
    THEN [st EXCEPT ![rec.key] = BrokerItem(rec.result, i)]
    ELSE st

\* lines 227-246: put_item, best effort for ClientError; anything else is caught
\* by the outer `except Exception`
WriteStore(i, outcome) ==
    /\ inv[i].pc = "write"
    /\ LET rec == [inv[i] EXCEPT !.writeOutcome = outcome]
       IN  inv' = [inv EXCEPT ![i] =
             CASE outcome = "ok" ->
                    Respond([rec EXCEPT !.wrote = TRUE], 200, "result", rec.result)
               [] outcome = "ClientError" -> Respond(rec, 200, "result", rec.result)
               [] OTHER -> Respond(rec, 500, "error", NoResult)]
    /\ store' = PutItem(store, inv[i], i, outcome)
    /\ faults' = [faults EXCEPT !.store = @ \/ outcome # "ok"]
    /\ UNCHANGED backendCalls

(***************************************************************************)
(* Ingress: the intake Lambda (intake/handler.py 21-91) publishes one      *)
(* event per accepted submission; the rule (workflow.py 86-101) targets    *)
(* the broker Lambda with retry_attempts=2 and a dead-letter queue.        *)
(* EventBridge invokes a Lambda target asynchronously: the rule's retry    *)
(* policy and dead-letter queue are for events it could not hand to the    *)
(* function; once the function has accepted the event, a fault raised by   *)
(* the handler is retried by Lambda's own asynchronous-invocation policy,  *)
(* and the function (workflow.py 66-81) declares neither a dead-letter     *)
(* queue nor an on-failure destination of its own.                         *)
(* ev: none -> atRule -> queued -> running -> handled | dropped, or dlq.   *)
(***************************************************************************)
Subs == 1..NumSub

\* retry_attempts=2 of the rule's target (workflow.py 99)
RetryAttempts == 2
\* the broker function sets no retry_attempts: Lambda retries a failed
\* asynchronous invocation twice
AsyncRetries == 2

\* an event's detail (intake/handler.py 54-59); NoDetail while none was built
NoDetail == [requestId |-> "", input |-> "", correlationId |-> ""]

IdleSub ==
    [pc |-> "idle", input |-> "", code |-> 0, requestId |-> "", correlationId |-> "",
     putOutcome |-> "", published |-> 0, detail |-> NoDetail,
     ev |-> "none", deliveries |-> 0, attempts |-> 0, faulted |-> 0,
     lastCode |-> 0, run |-> 0]

PutOutcomes == {"ok", "failedEntry", "raise"}

\* correlation_id = str(uuid.uuid4()) (line 23), one per invocation
NewUuid == "uuid4"

\* the entry's Detail (lines 54-59)
EventDetail(input, correlation) ==
    [requestId |-> Sha256(input), input |-> input, correlationId |-> correlation]

\* intake/handler.py 35-91: `not user_input` -> 400 before anything else; the
\* request id is the sha256 of the input; put_events; 202 only when the entry
\* was taken, else 500 (with the correlation id when the bus reported a failed
\* entry, without it when put_events raised)
IntakeStepPublishEmpty(rec, input, putOutcome) ==
    LET r0 == [rec EXCEPT !.pc = "done", !.input = input,
                          !.requestId = Sha256(input), !.putOutcome = putOutcome,
                          !.detail = EventDetail(input, NewUuid)]
    IN  IF putOutcome = "ok"
        THEN [r0 EXCEPT !.code = 202, !.correlationId = NewUuid,
                        !.published = 1, !.ev = "atRule"]
        ELSE [r0 EXCEPT !.code = 500]

IntakeStepAcceptUnpublished(rec, input, putOutcome) ==
    LET r0 == [rec EXCEPT !.pc = "done", !.input = input]
        r1 == [r0 EXCEPT !.requestId = Sha256(input), !.putOutcome = putOutcome,
                         !.detail = EventDetail(input, NewUuid)]
    IN  IF input = "" THEN [r0 EXCEPT !.code = 400, !.correlationId = NewUuid]
        ELSE IF putOutcome = "ok"
        THEN [r1 EXCEPT !.code = 202, !.correlationId = NewUuid,
                        !.published = 1, !.ev = "atRule"]
        ELSE [r1 EXCEPT !.code = 202, !.correlationId = NewUuid]

IntakeStepOtherCorrelation(rec, input, putOutcome) ==
    LET r0 == [rec EXCEPT !.pc = "done", !.input = input]
        r1 == [r0 EXCEPT !.requestId = Sha256(input), !.putOutcome = putOutcome,
                         !.detail = EventDetail(input, "another uuid4")]
    IN  IF input = "" THEN [r0 EXCEPT !.code = 400, !.correlationId = NewUuid]
        ELSE IF putOutcome = "ok"
        THEN [r1 EXCEPT !.code = 202, !.correlationId = NewUuid,
                        !.published = 1, !.ev = "atRule"]
        ELSE IF putOutcome = "failedEntry"
        THEN [r1 EXCEPT !.code = 500, !.correlationId = NewUuid]
        ELSE [r1 EXCEPT !.code = 500]

IntakeStep(rec, input, putOutcome) ==
    LET r0 == [rec EXCEPT !.pc = "done", !.input = input]
        r1 == [r0 EXCEPT !.requestId = Sha256(input), !.putOutcome = putOutcome,
                         !.detail = EventDetail(input, NewUuid)]
    IN  IF input = "" THEN [r0 EXCEPT !.code = 400, !.correlationId = NewUuid]
        ELSE IF putOutcome = "ok"
        THEN [r1 EXCEPT !.code = 202, !.correlationId = NewUuid,
                        !.published = 1, !.ev = "atRule"]
        ELSE IF putOutcome = "failedEntry"
        THEN [r1 EXCEPT !.code = 500, !.correlationId = NewUuid]
        ELSE [r1 EXCEPT !.code = 500]

Intake(s, input, putOutcome) ==
    /\ sub[s].pc = "idle"
    /\ \A t \in Subs : t < s => sub[t].pc # "idle"
    /\ sub' = [sub EXCEPT ![s] = IntakeStep(sub[s], input, putOutcome)]
    /\ UNCHANGED <<inv, store, backendCalls, faults>>

\* the rule hands the event to the broker function, or fails to; an event it
\* could not hand over after retry_attempts retries goes to the dead-letter queue
Deliver(s, accepted) ==
    /\ sub[s].ev = "atRule"
    /\ sub' = [sub EXCEPT ![s] =
            IF accepted THEN [@ EXCEPT !.ev = "queued"]
            ELSE IF @.deliveries >= RetryAttempts
                 THEN [@ EXCEPT !.deliveries = @ + 1, !.ev = "dlq"]
                 ELSE [@ EXCEPT !.deliveries = @ + 1]]
    /\ UNCHANGED <<inv, store, backendCalls, faults>>

\* Lambda runs the handler on the event: {"detail": {requestId, input, ...}}
InvokeFromEvent(s, i) ==
    /\ sub[s].ev = "queued"
    /\ Begin(i, "detail", sub[s].detail.input)
    /\ sub' = [sub EXCEPT ![s] = [@ EXCEPT !.ev = "running", !.run = i,
                                           !.attempts = @ + 1]]

\* the invocation ended: a response of any status code is a success of the
\* invocation; an exception that left the handler is a function error, retried
\* until AsyncRetries retries are spent and then discarded
SettleStepRetryAnyOutcome(rec, crashed) ==
    IF rec.attempts > AsyncRetries
    THEN [rec EXCEPT !.ev = "dlq", !.run = 0, !.faulted = IF crashed THEN @ + 1 ELSE @]
    ELSE [rec EXCEPT !.ev = "queued", !.run = 0, !.faulted = IF crashed THEN @ + 1 ELSE @]

SettleStep(rec, crashed) ==
    IF ~crashed THEN [rec EXCEPT !.ev = "handled", !.run = 0]
    ELSE IF rec.attempts > AsyncRetries
    THEN [rec EXCEPT !.ev = "dropped", !.run = 0, !.faulted = @ + 1]
    ELSE [rec EXCEPT !.ev = "queued", !.run = 0, !.faulted = @ + 1]

Settle(s) ==
    /\ sub[s].ev = "running"
    /\ inv[sub[s].run].pc \in {"done", "crashed"}
    /\ sub' = [sub EXCEPT ![s] =
            [SettleStep(@, inv[sub[s].run].pc = "crashed")
                EXCEPT !.lastCode = inv[sub[s].run].code]]
    /\ inv' = [inv EXCEPT ![sub[s].run] = IdleInv]
    /\ UNCHANGED <<store, backendCalls, faults>>

(***************************************************************************)
(* The workflow declared in stacks/workflow.py 223-312, run by Step        *)
(* Functions.  Task statuses are the engine's view of each state:          *)
(* idle, running, succeeded, failed, or aborted (stopped by the engine).   *)
(***************************************************************************)
Execs == 1..NumExec

\* lines 281-283: the branches in declared order
Branches == <<"HotelSearch", "WeatherSearch", "EventsSearch">>
BranchSet == {Branches[i] : i \in 1..Len(Branches)}

\* line 286, with a swapped order for comparison
ChainSynthesisFirst ==
    <<"FlightSearch", "SynthesizeResults", "ParallelUpdates", "DeliverEmail">>

Chain == <<"FlightSearch", "ParallelUpdates", "SynthesizeResults", "DeliverEmail">>

TaskNames ==
    {"FlightSearch", "SynthesizeResults", "DeliverEmail", "HandleError"} \cup BranchSet

\* lines 289-292: the states that catch States.ALL into HandleError
Caught == {"FlightSearch", "ParallelUpdates", "SynthesizeResults", "DeliverEmail"}

IndexOf(node) == CHOOSE i \in 1..Len(Chain) : Chain[i] = node

\* the state after `node` on the success path, "End" after the last
NextOf(node) ==
    IF IndexOf(node) < Len(Chain) THEN Chain[IndexOf(node) + 1] ELSE "End"

\* an error descriptor {Error, Cause}; causeLen is len(Cause), -1 when absent
ErrorDescriptors ==
    {[Error |-> "Lambda.Unknown", causeLen |-> -1],
     [Error |-> "Exception", causeLen |-> 1500]}

\* the execution context: the JSON state, as the keys it holds and their values
EmptyCtx ==
    [keys |-> {}, requestId |-> "", extracted |-> NoResult,
     flight_output |-> "", parallel_results |-> <<>>, errors |-> <<>>,
     narrative |-> "", status |-> ""]

\* the input an execution is started with: {"requestId": ..., "extracted": ...}
SeedCtx(requestId) ==
    [EmptyCtx EXCEPT !.keys = {"requestId", "extracted"}, !.requestId = requestId,
                     !.extracted = EnforceStatusRules(CompleteRaw).result]

IdleExec ==
    [state |-> "NotStarted", outcome |-> "", ctx |-> EmptyCtx,
     task |-> [t \in TaskNames |-> "idle"],
     attempts |-> [t \in TaskNames |-> 0],
     branchOut |-> [b \in BranchSet |-> ""],
     completion |-> <<>>, routed |-> 0]

Terminal(rec) == rec.state \in {"Succeeded", "Failed"}
Active(rec) == {t \in TaskNames : rec.task[t] = "running"}

\* entering a state: a Task starts its Lambda, the Parallel starts every branch;
\* attempts counts the invocations of each task's Lambda (no task of lines
\* 226-272 is given a retry policy with add_retry)
Enter(rec, node) ==
    CASE node = "End" -> [rec EXCEPT !.state = "Succeeded", !.outcome = "Delivered"]
      [] node = "ParallelUpdates" ->
            [rec EXCEPT !.state = node,
                        !.task = [t \in TaskNames |->
                                    IF t \in BranchSet THEN "running" ELSE @[t]],
                        !.attempts = [t \in TaskNames |->
                                    IF t \in BranchSet THEN @[t] + 1 ELSE @[t]]]
      [] OTHER -> [rec EXCEPT !.state = node, !.task[node] = "running",
                              !.attempts[node] = @ + 1]

\* add_catch(error_handler_task, errors=["States.ALL"], result_path="$.error"):
\* what still runs is stopped and the outputs of branches that had completed
\* are dropped with the failed state, the descriptor is put at $.error,
\* HandleError starts
CatchReplacingInput(rec, err) ==
    [rec EXCEPT !.state = "HandleError",
                !.routed = @ + 1,
                !.ctx = [EmptyCtx EXCEPT !.keys = {"error"}, !.errors = <<err>>],
                !.branchOut = [b \in BranchSet |-> ""],
                !.completion = <<>>,
                !.attempts["HandleError"] = @ + 1,
                !.task = [t \in TaskNames |->
                            IF t = "HandleError" THEN "running"
                            ELSE IF @[t] = "running" THEN "aborted" ELSE @[t]]]

Catch(rec, err) ==
    [rec EXCEPT !.state = "HandleError",
                !.routed = @ + 1,
                !.ctx = [@ EXCEPT !.keys = @ \cup {"error"}, !.errors = <<err>>],
                !.branchOut = [b \in BranchSet |-> ""],
                !.completion = <<>>,
                !.attempts["HandleError"] = @ + 1,
                !.task = [t \in TaskNames |->
                            IF t = "HandleError" THEN "running"
                            ELSE IF @[t] = "running" THEN "aborted" ELSE @[t]]]

\* start_execution with the seed input
StartExecution(e, requestId) ==
    /\ ex[e].state = "NotStarted"
    /\ \A f \in Execs : f < e => ex[f].state # "NotStarted"
    /\ ex' = [ex EXCEPT ![e] = Enter([ex[e] EXCEPT !.ctx = SeedCtx(requestId)],
                                     Chain[1])]
    /\ UNCHANGED <<store, handlerLog>>

\* FlightSearch returns: result_path="$.flight_output" (lines 226-231)
FlightSucceed(e) ==
    /\ ex[e].state = "FlightSearch" /\ ex[e].task["FlightSearch"] = "running"
    /\ ex' = [ex EXCEPT ![e] =
            Enter([ex[e] EXCEPT !.task["FlightSearch"] = "succeeded",
                                !.ctx = [@ EXCEPT !.keys = @ \cup {"flight_output"},
                                                  !.flight_output = "flight_out"]],
                  NextOf("FlightSearch"))]
    /\ UNCHANGED <<store, handlerLog>>

\* a task of the chain raises or times out: its catch takes over
TaskFail(e, node, err) ==
    /\ node \in {"FlightSearch", "SynthesizeResults"}
    /\ ex[e].state = node /\ ex[e].task[node] = "running"
    /\ ex' = [ex EXCEPT ![e] = Catch([ex[e] EXCEPT !.task[node] = "failed"], err)]
    /\ UNCHANGED <<store, handlerLog>>

\* synthesis.py parse_event_data (11-37): positional reads of parallel_results
ParseEventData(ctx) ==
    LET pr == ctx.parallel_results
    IN  [request_id |-> ctx.requestId,
         flights |-> ctx.flight_output,
         hotels  |-> IF Len(pr) > 0 THEN pr[1] ELSE "",
         weather |-> IF Len(pr) > 1 THEN pr[2] ELSE "",
         events  |-> IF Len(pr) > 2 THEN pr[3] ELSE ""]

\* the Parallel state's result: the branch outputs (lines 277-283)
ParallelOutputByCompletion(rec) ==
    [i \in 1..Len(rec.completion) |-> rec.branchOut[rec.completion[i]]]

ParallelOutput(rec) ==
    [i \in 1..Len(Branches) |-> rec.branchOut[Branches[i]]]

\* the Parallel state completes when every branch of it has completed
ParallelCompleteOnFirst(rec) == \E c \in BranchSet : rec.task[c] = "succeeded"

ParallelComplete(rec) == \A c \in BranchSet : rec.task[c] = "succeeded"

\* one branch returns; when it is the last one the Parallel state completes
\* with result_path="$.parallel_results"
BranchSucceed(e, b) ==
    /\ ex[e].state = "ParallelUpdates" /\ ex[e].task[b] = "running"
    /\ LET rec == [ex[e] EXCEPT !.task[b] = "succeeded",
                                !.branchOut[b] = "out of " \o b,
                                !.completion = Append(@, b)]
       IN  ex' = [ex EXCEPT ![e] =
             IF ParallelComplete(rec)
             THEN Enter([rec EXCEPT !.ctx = [@ EXCEPT
                                !.keys = @ \cup {"parallel_results"},
                                !.parallel_results = ParallelOutput(rec)]],
                        NextOf("ParallelUpdates"))
             ELSE rec]
    /\ UNCHANGED <<store, handlerLog>>

\* a branch fails: the Parallel state fails at once and its catch takes over
BranchFailStepPerBranch(rec, b, err) ==
    [rec EXCEPT !.task[b] = "failed", !.routed = @ + 1,
                !.ctx = [@ EXCEPT !.keys = @ \cup {"error"},
                                  !.errors = Append(@, err)],
                !.attempts["HandleError"] = @ + 1,
                !.task["HandleError"] = "running"]

BranchFailStep(rec, b, err) == Catch([rec EXCEPT !.task[b] = "failed"], err)

BranchFail(e, b, err) ==
    /\ ex[e].state = "ParallelUpdates" /\ ex[e].task[b] = "running"
    /\ ex' = [ex EXCEPT ![e] = BranchFailStep(ex[e], b, err)]
    /\ UNCHANGED <<store, handlerLog>>

\* synthesis.lambda_handler (99-117) returns {status, narrative, requestId}; the
\* task has no result_path, so the return value replaces the context.  The
\* narrative is the model's text or, when bedrock fails, the fallback message
\* of call_bedrock_converse (93-97).  The record of the Parallel state
\* (branchOut, completion) is kept only as long as its result is in the context.
SynthesisSucceed(e, bedrockOk) ==
    /\ ex[e].state = "SynthesizeResults" /\ ex[e].task["SynthesizeResults"] = "running"
    /\ ex' = [ex EXCEPT ![e] =
            Enter([ex[e] EXCEPT
                     !.task["SynthesizeResults"] = "succeeded",
                     !.branchOut = [b \in BranchSet |-> ""],
                     !.completion = <<>>,
                     !.ctx = [EmptyCtx EXCEPT
                                !.keys = {"status", "narrative", "requestId"},
                                !.status = "success",
                                !.narrative = IF bedrockOk THEN "narrative"
                                              ELSE "Unable to generate narrative",
                                !.requestId = ex[e].ctx.requestId]],
                  NextOf("SynthesizeResults"))]
    /\ UNCHANGED <<store, handlerLog>>

\* delivery.py 12-39: update_item SET status = COMPLETED, delivery_timestamp,
\* and narrative when there is one; any exception of the update is swallowed
DeliveryUpdateMarksFailed(item, narrative) ==
    [item EXCEPT !.attrs = @ \cup {"requestId", "status", "delivery_timestamp"}
                            \cup (IF narrative # "" THEN {"narrative"} ELSE {}),
                 !.status = "FAILED",
                 !.narrative = IF narrative # "" THEN narrative ELSE @]

DeliveryUpdate(item, narrative) ==
    [item EXCEPT !.attrs = @ \cup {"requestId", "status", "delivery_timestamp"}
                            \cup (IF narrative # "" THEN {"narrative"} ELSE {}),
                 !.status = "COMPLETED",
                 !.narrative = IF narrative # "" THEN narrative ELSE @]

StoreAfterDelivery(rec, updateOk) ==
    IF rec.ctx.requestId # "" /\ updateOk
    THEN [store EXCEPT ![rec.ctx.requestId] = DeliveryUpdate(@, rec.ctx.narrative)]
    ELSE store

\* delivery.lambda_handler returns {status: DELIVERED, email_sent_to, requestId}
DeliverySucceed(e, updateOk) ==
    /\ ex[e].state = "DeliverEmail" /\ ex[e].task["DeliverEmail"] = "running"
    /\ store' = StoreAfterDelivery(ex[e], updateOk)
    /\ ex' = [ex EXCEPT ![e] =
            Enter([ex[e] EXCEPT
                     !.task["DeliverEmail"] = "succeeded",
                     !.ctx = [EmptyCtx EXCEPT
                                !.keys = {"status", "email_sent_to", "requestId"},
                                !.status = "DELIVERED",
                                !.requestId = ex[e].ctx.requestId]],
                  NextOf("DeliverEmail"))]
    /\ UNCHANGED handlerLog

\* the delivery Lambda dies (timeout, crash) before or after its update
DeliveryFail(e, updated, err) ==
    /\ ex[e].state = "DeliverEmail" /\ ex[e].task["DeliverEmail"] = "running"
    /\ store' = StoreAfterDelivery(ex[e], updated)
    /\ ex' = [ex EXCEPT ![e] = Catch([ex[e] EXCEPT !.task["DeliverEmail"] = "failed"], err)]
    /\ UNCHANGED handlerLog

\* error_handler.py 16-35: error_msg = str(error.get("Cause", "Unknown Error"));
\* update_item SET status = FAILED, error = error_msg[:1000]
MaxErrorLen == 1000
UnknownErrorLen == 13

ErrorMsgLen(errors) ==
    IF errors = <<>> \/ errors[1].causeLen < 0 THEN UnknownErrorLen
    ELSE errors[1].causeLen

TruncateNothing(len) == len

Truncate(len) == IF len > MaxErrorLen THEN MaxErrorLen ELSE len

HandlerUpdate(item, errors) ==
    [item EXCEPT !.attrs = @ \cup {"requestId", "status", "error"},
                 !.status = "FAILED",
                 !.errorLen = Truncate(ErrorMsgLen(errors))]

StoreAfterHandler(rec, updateOk) ==
    IF rec.ctx.requestId # "" /\ updateOk
    THEN [store EXCEPT ![rec.ctx.requestId] = HandlerUpdate(@, rec.ctx.errors)]
    ELSE store

\* the handler's event is the whole context the catch handed over
HandlerEvent(rec) ==
    [keys |-> rec.ctx.keys, requestId |-> rec.ctx.requestId,
     extracted |-> rec.ctx.extracted, errors |-> rec.ctx.errors]

\* HandleError returns; it is the last state of its path (lines 269-272), so the
\* engine ends the execution there: outcome "Handled"
HandlerSucceedResumes(e, updateOk) ==
    /\ ex[e].task["HandleError"] = "running"
    /\ ~Terminal(ex[e])
    /\ store' = StoreAfterHandler(ex[e], updateOk)
    /\ handlerLog' = [handlerLog EXCEPT ![e] = Append(@, HandlerEvent(ex[e]))]
    /\ ex' = [ex EXCEPT ![e] =
            IF @.task["DeliverEmail"] = "idle"
            THEN Enter([@ EXCEPT !.task["HandleError"] = "succeeded"], "DeliverEmail")
            ELSE [@ EXCEPT !.state = "Succeeded", !.outcome = "Handled",
                           !.task["HandleError"] = "succeeded"]]

HandlerSucceed(e, updateOk) ==
    /\ ex[e].task["HandleError"] = "running"
    /\ ~Terminal(ex[e])
    /\ store' = StoreAfterHandler(ex[e], updateOk)
    /\ handlerLog' = [handlerLog EXCEPT ![e] = Append(@, HandlerEvent(ex[e]))]
    /\ ex' = [ex EXCEPT ![e] = [@ EXCEPT !.state = "Succeeded", !.outcome = "Handled",
                                         !.task["HandleError"] = "succeeded"]]

\* the handler Lambda itself dies, before or after its update: nothing catches it
HandlerFailRetried(e, updated) ==
    /\ ex[e].task["HandleError"] = "running"
    /\ ~Terminal(ex[e])
    /\ store' = StoreAfterHandler(ex[e], updated)
    /\ handlerLog' = [handlerLog EXCEPT ![e] = Append(@, HandlerEvent(ex[e]))]
    /\ ex' = [ex EXCEPT ![e] =
            IF @.attempts["HandleError"] < 2
            THEN [@ EXCEPT !.attempts["HandleError"] = @ + 1]
            ELSE [@ EXCEPT !.state = "Failed", !.outcome = "HandlerFailed",
                           !.task["HandleError"] = "failed"]]

HandlerFail(e, updated) ==
    /\ ex[e].task["HandleError"] = "running"
    /\ ~Terminal(ex[e])
    /\ store' = StoreAfterHandler(ex[e], updated)
    /\ handlerLog' = [handlerLog EXCEPT ![e] = Append(@, HandlerEvent(ex[e]))]
    /\ ex' = [ex EXCEPT ![e] = [@ EXCEPT !.state = "Failed", !.outcome = "HandlerFailed",
                                         !.task["HandleError"] = "failed"]]

\* timeout=Duration.minutes(5) (line 305): the execution is failed by the engine
\* wherever it is; no state catches it
ExecutionTimeout(e) ==
    /\ ex[e].state # "NotStarted" /\ ~Terminal(ex[e])
    /\ ex' = [ex EXCEPT ![e] =
            [@ EXCEPT !.state = "Failed", !.outcome = "TimedOut",
                      !.branchOut = [b \in BranchSet |-> ""],
                      !.completion = <<>>,
                      !.task = [t \in TaskNames |->
                                  IF @[t] = "running" THEN "aborted" ELSE @[t]]]]
    /\ UNCHANGED <<store, handlerLog>>

(***************************************************************************)
(* Initial states and specifications                                       *)
(***************************************************************************)
PolicyIdle ==
    /\ raw = NoResult /\ altMissing = <<>>
    /\ out = NoOut /\ outAlt = NoOut /\ out2 = NoOut /\ ppc = "off"

BrokerIdle ==
    /\ inv = [i \in Invs |-> IdleInv]
    /\ backendCalls = [t \in Texts |-> 0]
    /\ faults = [store |-> FALSE, backend |-> FALSE]

FlowIdle ==
    /\ ex = [e \in Execs |-> IdleExec]
    /\ handlerLog = [e \in Execs |-> <<>>]

IngressIdle == sub = [s \in Subs |-> IdleSub]

EmptyStore == [k \in TableKeys |-> NoItem]

InitPolicy ==
    /\ raw \in RawOutputs /\ altMissing \in AssertedLists
    /\ out = NoOut /\ outAlt = NoOut /\ out2 = NoOut /\ ppc = "input"
    /\ BrokerIdle /\ FlowIdle /\ IngressIdle /\ store = EmptyStore

NextPolicy ==
    \/ Normalize /\ UNCHANGED <<inv, store, backendCalls, faults, sub, ex, handlerLog>>
    \/ NormalizeAgain /\ UNCHANGED <<inv, store, backendCalls, faults, sub, ex, handlerLog>>

SpecPolicy == InitPolicy /\ [][NextPolicy]_vars

InitBroker ==
    /\ PolicyIdle /\ BrokerIdle /\ FlowIdle /\ IngressIdle /\ store = EmptyStore

NextBroker ==
    \/ \E i \in Invs, src \in {"direct", "detail"}, input \in Texts \cup {CRASH, ""} :
          Begin(i, src, input) /\ UNCHANGED <<policyVars, flowVars, sub>>
    \/ \E i \in Invs, o \in StoreOutcomes :
          ReadStore(i, o) /\ UNCHANGED <<policyVars, flowVars, sub>>
    \/ \E i \in Invs, resp \in BackendResponses :
          CallBackend(i, resp) /\ UNCHANGED <<policyVars, flowVars, sub>>
    \/ \E i \in Invs, o \in StoreOutcomes :
          WriteStore(i, o) /\ UNCHANGED <<policyVars, flowVars, sub>>

SpecBroker == InitBroker /\ [][NextBroker]_vars

\* the record the broker wrote for a complete request, when its write succeeded
SeedItem == BrokerItem(EnforceStatusRules(CompleteRaw).result, 1)

InitWorkflow ==
    /\ PolicyIdle /\ BrokerIdle /\ FlowIdle /\ IngressIdle
    /\ store \in {EmptyStore,
                  [k \in TableKeys |-> IF k \in Keys THEN SeedItem ELSE NoItem]}

NextWorkflow ==
    \/ \E e \in Execs, k \in Keys :
          StartExecution(e, k) /\ UNCHANGED <<policyVars, brokerVars, sub>>
    \/ \E e \in Execs : FlightSucceed(e) /\ UNCHANGED <<policyVars, brokerVars, sub>>
    \/ \E e \in Execs, n \in Caught, err \in ErrorDescriptors :
          TaskFail(e, n, err) /\ UNCHANGED <<policyVars, brokerVars, sub>>
    \/ \E e \in Execs, b \in BranchSet :
          BranchSucceed(e, b) /\ UNCHANGED <<policyVars, brokerVars, sub>>
    \/ \E e \in Execs, b \in BranchSet, err \in ErrorDescriptors :
          BranchFail(e, b, err) /\ UNCHANGED <<policyVars, brokerVars, sub>>
    \/ \E e \in Execs, ok \in BOOLEAN :
          SynthesisSucceed(e, ok) /\ UNCHANGED <<policyVars, brokerVars, sub>>
    \/ \E e \in Execs, ok \in BOOLEAN :
          DeliverySucceed(e, ok) /\ UNCHANGED <<policyVars, brokerVars, sub>>
    \/ \E e \in Execs, u \in BOOLEAN, err \in ErrorDescriptors :
          DeliveryFail(e, u, err) /\ UNCHANGED <<policyVars, brokerVars, sub>>
    \/ \E e \in Execs, ok \in BOOLEAN :
          HandlerSucceed(e, ok) /\ UNCHANGED <<policyVars, brokerVars, sub>>
    \/ \E e \in Execs, u \in BOOLEAN :
          HandlerFail(e, u) /\ UNCHANGED <<policyVars, brokerVars, sub>>
    \/ \E e \in Execs : ExecutionTimeout(e) /\ UNCHANGED <<policyVars, brokerVars, sub>>

SpecWorkflow == InitWorkflow /\ [][NextWorkflow]_vars

\* the backend as far as the ingress path distinguishes it: it raises, or it
\* returns a complete intent
IngressResponses ==
    {r \in BackendResponses : r.kind = "raise" \/ r.obj = CompleteRaw}

\* what is submitted: a travel request, the crash trigger, nothing
IngressInputs == {"trip A", CRASH, ""}

InitIngress ==
    /\ PolicyIdle /\ BrokerIdle /\ FlowIdle /\ IngressIdle /\ store = EmptyStore

NextIngress ==
    \/ \E s \in Subs, input \in IngressInputs, po \in PutOutcomes :
          Intake(s, input, po) /\ UNCHANGED <<policyVars, flowVars>>
    \/ \E s \in Subs, a \in BOOLEAN :
          Deliver(s, a) /\ UNCHANGED <<policyVars, flowVars>>
    \/ \E s \in Subs, i \in Invs :
          InvokeFromEvent(s, i) /\ UNCHANGED <<policyVars, flowVars>>
    \/ \E s \in Subs : Settle(s) /\ UNCHANGED <<policyVars, flowVars>>
    \/ \E i \in Invs :
          Begin(i, "direct", "") /\ UNCHANGED <<policyVars, flowVars, sub>>
    \/ \E i \in Invs, o \in StoreOutcomes :
          ReadStore(i, o) /\ UNCHANGED <<policyVars, flowVars, sub>>
    \/ \E i \in Invs, resp \in IngressResponses :
          CallBackend(i, resp) /\ UNCHANGED <<policyVars, flowVars, sub>>
    \/ \E i \in Invs, o \in StoreOutcomes :
          WriteStore(i, o) /\ UNCHANGED <<policyVars, flowVars, sub>>

SpecIngress == InitIngress /\ [][NextIngress]_vars

\* the default specification: the broker
Init == InitBroker
Next == NextBroker
Spec == SpecBroker

(***************************************************************************)
(* Claims                                                                  *)
(***************************************************************************)
\* the spec's terms: a required field is present, the date range is consistent
FieldPresent(r, f) ==
    CASE f = "origin_city" -> r.origin_city.t # "null"
      [] f = "destination" -> r.destination.t # "null"
      [] f = "budget_cad"  -> r.budget_cad.t # "null"
      [] OTHER -> /\ r.travel_dates.k = "dict"
                  /\ r.travel_dates.departure.t # "null"
                  /\ r.travel_dates.return.t # "null"

DateRangeConsistent(r) ==
    /\ r.travel_dates.k = "dict"
    /\ r.travel_dates.departure.t = "date"
    /\ r.travel_dates.return.t = "date"
    /\ r.travel_dates.departure.n <= r.travel_dates.return.n

Range(seq) == {seq[i] : i \in 1..Len(seq)}
Normalized == ppc \in {"done", "twice"}
Unsatisfied(r) == {f \in RequiredFields : ~FieldSatisfied(r, f)}
Done(i) == inv[i].pc = "done"

\* C1 (as claimed): with the store and the backend healthy, the backend is
\* called at most once for an input text however many invocations carry it,
\* and all invocations with that text return 200 with the same body.
C1_AtMostOneBackendCall ==
    (~faults.store /\ ~faults.backend) =>
        /\ \A t \in Texts : backendCalls[t] <= 1
        /\ \A i, j \in Invs :
              (Done(i) /\ Done(j) /\ inv[i].input \in Texts
               /\ inv[i].input = inv[j].input) =>
                  /\ inv[i].code = 200 /\ inv[j].code = 200
                  /\ inv[i].bodyResult = inv[j].bodyResult

\* C2 (as claimed): a result returned by the policy has status READY_TO_PROCESS
\* exactly when its missing_fields is empty, the four required fields are
\* present and the date range has departure <= return.
C2_ReadyIffComplete ==
    (Normalized /\ ~out.fault) =>
        (out.result.status = READY <=>
            /\ out.result.missing_fields = <<>>
            /\ \A f \in RequiredFields : FieldPresent(raw, f)
            /\ DateRangeConsistent(raw))

\* C3 (as claimed): two raw outputs with the same extracted fields and
\* different asserted missing_fields normalize to the same missing_fields and
\* status, and missing_fields names only unsatisfied required fields.
C3_RederivedFromScratch ==
    (Normalized /\ ~out.fault /\ ~outAlt.fault) =>
        /\ out.result.missing_fields = outAlt.result.missing_fields
        /\ out.result.status = outAlt.result.status
        /\ Range(out.result.missing_fields) \subseteq Unsatisfied(raw)

\* C4 (as claimed): when an invocation of the broker has returned an intent
\* with status READY_TO_PROCESS, a workflow execution seeded with that request
\* has been started.
C4_ReadyStartsExecution ==
    \A i \in Invs :
        (Done(i) /\ inv[i].code = 200 /\ inv[i].bodyResult.status = READY) =>
            \E e \in Execs : /\ ex[e].state # "NotStarted"
                             /\ ex[e].ctx.requestId = inv[i].key

\* C5: flight completes before any branch starts, all three branches complete
\* before synthesis starts, synthesis completes before delivery starts, and
\* only branches of the Parallel state are ever active together.
C5_DeclaredOrder ==
    \A e \in Execs :
        LET t == ex[e].task
        IN  /\ \A b \in BranchSet : t[b] # "idle" => t["FlightSearch"] = "succeeded"
            /\ t["SynthesizeResults"] # "idle" =>
                  \A b \in BranchSet : t[b] = "succeeded"
            /\ t["DeliverEmail"] # "idle" => t["SynthesizeResults"] = "succeeded"
            /\ Cardinality(Active(ex[e])) > 1 => Active(ex[e]) \subseteq BranchSet

\* C5 witness: an execution that ran every step through delivery.
C5_Witness ==
    \E e \in Execs : ex[e].task["DeliverEmail"] = "succeeded"

\* C6: whenever parallel_results is in the context it is
\* [hotel output, weather output, events output], whatever the completion
\* order, so synthesis reads each branch's output at its index.
C6_ParallelResultsInBranchOrder ==
    \A e \in Execs :
        "parallel_results" \in ex[e].ctx.keys =>
            /\ ex[e].ctx.parallel_results =
                  <<"out of HotelSearch", "out of WeatherSearch", "out of EventsSearch">>
            /\ ParseEventData(ex[e].ctx).hotels = "out of HotelSearch"
            /\ ParseEventData(ex[e].ctx).weather = "out of WeatherSearch"
            /\ ParseEventData(ex[e].ctx).events = "out of EventsSearch"

\* C6 witness: synthesis is about to read the results of a Parallel state
\* whose branches completed in the reverse of the declared order.
C6_Witness ==
    \E e \in Execs :
        /\ ex[e].state = "SynthesizeResults"
        /\ ex[e].completion = <<"EventsSearch", "WeatherSearch", "HotelSearch">>

\* C7: an execution is routed to the error handler at most once, exactly when
\* one of its steps or branches has failed; the handler is invoked at most once
\* and the event it receives carries exactly one error descriptor.
C7_HandlerAtMostOnce ==
    \A e \in Execs :
        /\ ex[e].routed <= 1
        /\ Len(handlerLog[e]) <= ex[e].routed
        /\ \A k \in 1..Len(handlerLog[e]) : Len(handlerLog[e][k].errors) = 1
        /\ Len(ex[e].ctx.errors) <= 1
        /\ (ex[e].routed = 1) <=>
              (\E t \in TaskNames \ {"HandleError"} : ex[e].task[t] = "failed")

\* C7 witness: a branch failed while a sibling was still running, and the
\* handler has been invoked once.
C7_Witness ==
    \E e \in Execs :
        /\ ex[e].task["HotelSearch"] = "failed"
        /\ ex[e].task["WeatherSearch"] = "aborted"
        /\ Len(handlerLog[e]) = 1

\* C8 (as claimed): every execution that ended failed (handled by the error
\* handler, ended by the handler's own failure, or timed out) has set its
\* request record's status to FAILED.
C8_FailedExecutionMarksRecord ==
    \A e \in Execs :
        ex[e].outcome \in {"Handled", "HandlerFailed", "TimedOut"} =>
            store[ex[e].ctx.requestId].status = "FAILED"

\* C9 (as claimed): a failed store read of any kind is treated as a cache miss
\* (the invocation goes on, never aborts), and after a failed store write of
\* any kind the extracted result is returned with 200.
C9_StoreFailuresNeverAbort ==
    \A i \in Invs :
        /\ inv[i].readOutcome \in {"ClientError", "OtherError"} =>
              /\ inv[i].pc # "crashed"
              /\ ~inv[i].hit
              /\ Done(i) => inv[i].called
        /\ inv[i].writeOutcome \in {"ClientError", "OtherError"} =>
              /\ inv[i].code = 200
              /\ inv[i].body = "result"
              /\ inv[i].bodyResult = inv[i].result

\* C10 (as claimed): when the backend call fails (it raises, or its response
\* is malformed or unparseable), the invocation answers 500 and writes nothing.
C10_BackendFailureRejects ==
    \A i \in Invs :
        inv[i].backendOutcome \in {"raise", "unparseable", "nonobject"} =>
            /\ ~inv[i].wrote
            /\ inv[i].pc # "write"
            /\ Done(i) => inv[i].code = 500

\* C10 (amended): when the backend call raises (timeout, auth failure, a
\* response that is not a JSON object or that the policy cannot read), the
\* invocation answers 500 and writes no record; a text that is not parseable
\* JSON is not such a failure: it becomes a NEEDS_CLARIFICATION intent listing
\* parsing_error, which is written and returned with 200 like any other.
C10_RaisingBackendRejects ==
    \A i \in Invs :
        /\ inv[i].backendOutcome \in {"raise", "nonobject", "policyfault"} =>
              /\ Done(i) /\ inv[i].code = 500 /\ inv[i].body = "error"
              /\ ~inv[i].wrote /\ inv[i].writeOutcome = ""
              /\ store[inv[i].key].correlationId # i
        /\ inv[i].backendOutcome = "unparseable" =>
              /\ inv[i].pc \in {"write", "done"}
              /\ inv[i].result.status = NEEDS
              /\ "parsing_error" \in Range(inv[i].result.missing_fields)
              /\ inv[i].writeOutcome = "ok" =>
                    /\ inv[i].wrote /\ inv[i].code = 200
                    /\ inv[i].bodyResult = inv[i].result

\* C10 witness: one invocation was rejected after the backend raised, and
\* another one persisted the intent built from an unparseable text.
C10_Witness ==
    \E i, j \in Invs :
        /\ inv[i].backendOutcome = "raise" /\ Done(i) /\ inv[i].code = 500
        /\ inv[j].backendOutcome = "unparseable" /\ inv[j].wrote
        /\ store[inv[j].key].result.missing_fields[1] = "parsing_error"

\* C11: an empty (or missing) input is answered 400 by intake and by the
\* broker; intake publishes no event for it, the broker neither reads nor
\* writes the store nor calls the backend, and while nothing but empty inputs
\* has been submitted the table is empty and the backend was never called.
C11_EmptyInputRejected ==
    /\ \A s \in Subs :
          (sub[s].pc = "done" /\ sub[s].input = "") =>
              /\ sub[s].code = 400
              /\ sub[s].published = 0 /\ sub[s].ev = "none"
              /\ sub[s].attempts = 0
    /\ \A i \in Invs :
          (inv[i].pc # "idle" /\ inv[i].input = "") =>
              /\ Done(i) /\ inv[i].code = 400 /\ inv[i].body = "error"
              /\ inv[i].readOutcome = "" /\ inv[i].writeOutcome = ""
              /\ ~inv[i].called /\ ~inv[i].wrote /\ ~inv[i].hit
    /\ (\A s \in Subs : sub[s].input = "") =>
          /\ store = EmptyStore
          /\ \A t \in Texts : backendCalls[t] = 0

\* C11 witness: intake and the broker have each rejected an empty input.
C11_Witness ==
    /\ \E s \in Subs : sub[s].pc = "done" /\ sub[s].input = "" /\ sub[s].code = 400
    /\ \E i \in Invs : Done(i) /\ inv[i].input = "" /\ inv[i].code = 400

\* C12: an invocation of the broker with the crash trigger ends in an
\* unhandled fault before any store access or backend call; however often the
\* event is retried, no attempt is handled and the table holds no record under
\* the trigger's fingerprint.
C12_CrashTriggerLeavesNoRecord ==
    /\ \A i \in Invs :
          (inv[i].pc # "idle" /\ inv[i].input = CRASH) =>
              /\ inv[i].pc = "crashed" /\ inv[i].code = 0
              /\ inv[i].readOutcome = "" /\ inv[i].writeOutcome = ""
              /\ ~inv[i].called /\ ~inv[i].wrote
    /\ \A s \in Subs : sub[s].input = CRASH => sub[s].ev # "handled"
    /\ ~ItemExists(store[Sha256(CRASH)])

\* C12 witness: the crash trigger was attempted three times, the last attempt
\* has just faulted, and there is no record for it.
C12_Witness ==
    \E s \in Subs :
        /\ sub[s].input = CRASH /\ sub[s].attempts = 1 + AsyncRetries
        /\ sub[s].ev = "running" /\ inv[sub[s].run].pc = "crashed"
        /\ ~ItemExists(store[Sha256(CRASH)])

\* C13 (as claimed): a submission of the crash trigger that intake accepted
\* with 202 is attempted at most three times by the broker (the first delivery
\* and two retries) and ends in the dead-letter queue: once its attempts are
\* spent the event has not been discarded, it is in the queue.
C13_CrashTriggerReachesDLQ ==
    \A s \in Subs :
        (sub[s].input = CRASH /\ sub[s].pc = "done" /\ sub[s].published = 1) =>
            /\ sub[s].code = 202
            /\ sub[s].attempts <= 1 + RetryAttempts
            /\ sub[s].ev # "dropped"
            /\ (sub[s].attempts = 1 + RetryAttempts /\ sub[s].ev # "running") =>
                  sub[s].ev = "dlq"

\* C14 (as claimed): when the backend text is not parseable, the broker's
\* result has every intent field null, status NEEDS_CLARIFICATION and
\* missing_fields equal to exactly ["parsing_error"].
C14_ParseFailureListsOnlyParsingError ==
    \A i \in Invs :
        inv[i].backendOutcome = "unparseable" =>
            /\ inv[i].result.status = NEEDS
            /\ \A f \in RequiredFields : ~FieldPresent(inv[i].result, f)
            /\ inv[i].result.missing_fields = <<"parsing_error">>

\* C15 (as claimed): whatever text the backend returns (unparseable, JSON that
\* is no object, an object whose extracted or missing_fields is null or
\* absent), normalization raises no fault and yields an intent whose status is
\* READY_TO_PROCESS or NEEDS_CLARIFICATION.
C15_PolicyTotal ==
    \A i \in Invs :
        (inv[i].called /\ inv[i].backendOutcome # "raise") =>
            /\ inv[i].backendOutcome \notin {"nonobject", "policyfault"}
            /\ inv[i].result.status \in {READY, NEEDS}
            /\ Done(i) => inv[i].code # 500 \/ inv[i].writeOutcome = "OtherError"

AssertedNames(r) == IF r.mfKind = "list" THEN Range(r.missing_fields) ELSE {}

\* C16: the policy never adds budget_cad to missing_fields for a numeric
\* budget, 0 included (the name is listed only if the backend asserted it);
\* it always lists it for a null budget; and budget_warning has no part in
\* the status: the same output without its warning gets the same status, and
\* a complete intent with nothing asserted is READY_TO_PROCESS with or without
\* a warning.
C16_NumericBudgetNeverMissing ==
    (Normalized /\ ~out.fault) =>
        LET m == Range(out.result.missing_fields)
            plain == EnforceStatusRules([raw EXCEPT !.budget_warning = JNull])
        IN  /\ (raw.budget_cad.t = "num" /\ "budget_cad" \in m) =>
                  "budget_cad" \in AssertedNames(raw)
            /\ raw.budget_cad.t = "null" => "budget_cad" \in m
            /\ out.result.status = plain.result.status
            /\ out.result.missing_fields = plain.result.missing_fields
            /\ out.result.budget_warning = raw.budget_warning
            /\ (AssertedNames(raw) = {} /\ Unsatisfied(raw) = {}) =>
                  out.result.status = READY

\* C16 witness: a complete intent with budget 0 and a budget warning was
\* normalized to READY_TO_PROCESS.
C16_Witness ==
    /\ Normalized /\ ~out.fault
    /\ raw.budget_cad = JNum(0) /\ raw.budget_warning # JNull
    /\ raw.origin_city = JStr("Edmonton") /\ raw.travel_dates = DatesDict(JDate(1), JDate(2))
    /\ out.result.status = READY /\ out.result.missing_fields = <<>>

\* C17 (as claimed): travel_dates is listed in missing_fields, and the status
\* is NEEDS_CLARIFICATION, whenever departure or return is absent or departure
\* is later than return.
C17_DepartureAfterReturnIsMissing ==
    (Normalized /\ ~out.fault /\ ~DateRangeConsistent(raw)) =>
        /\ "travel_dates" \in Range(out.result.missing_fields)
        /\ out.result.status = NEEDS

OtherStatus(st) == IF st = READY THEN NEEDS ELSE READY

\* C18: the normalized status is READY_TO_PROCESS exactly when the normalized
\* missing_fields is empty and NEEDS_CLARIFICATION otherwise; with
\* NEEDS_CLARIFICATION the clarification is the one supplied, or, when none
\* was, "Missing required fields: " followed by the names; with
\* READY_TO_PROCESS it is null; and the same output asserting the other status
\* normalizes to the same result.
C18_StatusFromMissingFields ==
    (Normalized /\ ~out.fault) =>
        LET r == out.result
        IN  /\ r.status \in {READY, NEEDS}
            /\ r.status = READY <=> r.missing_fields = <<>>
            /\ r.status = READY => r.clarification_needed = JNull
            /\ r.status = NEEDS =>
                  /\ Truthy(r.clarification_needed)
                  /\ r.clarification_needed =
                        IF Truthy(raw.clarification_needed)
                        THEN raw.clarification_needed
                        ELSE JStr("Missing required fields: " \o Join(r.missing_fields))
            /\ EnforceStatusRules([raw EXCEPT !.status = OtherStatus(@)]).result = r

\* C18 witness: the backend asserted READY_TO_PROCESS without an origin and
\* supplied no clarification; the result is NEEDS_CLARIFICATION with the
\* synthesized sentence.
C18_Witness ==
    /\ Normalized /\ ~out.fault
    /\ raw.status = READY /\ raw.clarification_needed = JNull
    /\ out.result.status = NEEDS
    /\ out.result.clarification_needed = JStr("Missing required fields: origin_city")

\* C19: the parallel block completes (its results enter the context and the
\* synthesis task starts) only when the hotel, weather and events branches
\* have all completed; as soon as one branch fails the block has failed: the
\* execution has left the block for its catch, no sibling branch is still
\* running, and no parallel result was produced.
C19_ParallelAllOrFailFast ==
    \A e \in Execs :
        /\ ("parallel_results" \in ex[e].ctx.keys
              \/ ex[e].task["SynthesizeResults"] # "idle")
           => \A b \in BranchSet : ex[e].task[b] = "succeeded"
        /\ ex[e].state = "ParallelUpdates"
           => \A b \in BranchSet : ex[e].task[b] \in {"running", "succeeded"}
        /\ (\E b \in BranchSet : ex[e].task[b] = "failed")
           => /\ ex[e].state # "ParallelUpdates"
              /\ ex[e].routed = 1
              /\ \A c \in BranchSet : ex[e].task[c] # "running"
              /\ "parallel_results" \notin ex[e].ctx.keys
              /\ ex[e].task["SynthesizeResults"] = "idle"

\* C19 witness: the weather branch failed after the hotel branch had
\* completed and while the events branch was still running; the block failed
\* without waiting for the events branch.
C19_Witness ==
    \E e \in Execs :
        /\ ex[e].task["WeatherSearch"] = "failed"
        /\ ex[e].task["HotelSearch"] = "succeeded"
        /\ ex[e].task["EventsSearch"] = "aborted"
        /\ ex[e].state = "HandleError"

\* what the error handler must be handed after a failure inside the parallel
\* block: the execution's original input (request id and intent, with the
\* flight result merged before the block) plus exactly one error descriptor
CarriesIntentAndError(c) ==
    /\ {"requestId", "extracted", "error"} \subseteq c.keys
    /\ c.requestId \in Keys
    /\ c.extracted = SeedCtx(c.requestId).extracted
    /\ Len(c.errors) = 1

\* C20 (as claimed): in an execution whose hotel branch fails, the weather
\* and events branches still run to completion before the parallel block
\* reports failure, and the error handler is then invoked with the original
\* intent plus the attached error descriptor.
C20_SiblingsCompleteBeforeFailure ==
    \A e \in Execs :
        ex[e].task["HotelSearch"] = "failed"
        => /\ ex[e].task["WeatherSearch"] = "succeeded"
           /\ ex[e].task["EventsSearch"] = "succeeded"
           /\ \A k \in 1..Len(handlerLog[e]) : CarriesIntentAndError(handlerLog[e][k])

\* C20 (amended): in an execution whose hotel branch fails, the parallel
\* block reports failure at once: a weather or events branch that was still
\* running is stopped and never completes, no parallel result is produced,
\* and the error handler is invoked, at most once, with the original intent
\* plus the one attached error descriptor.
C20_HotelFailureStopsSiblings ==
    \A e \in Execs :
        ex[e].task["HotelSearch"] = "failed"
        => /\ ex[e].state \in {"HandleError", "Succeeded", "Failed"}
           /\ \A c \in {"WeatherSearch", "EventsSearch"} :
                 ex[e].task[c] \in {"succeeded", "aborted"}
           /\ "parallel_results" \notin ex[e].ctx.keys
           /\ ex[e].task["HandleError"] # "idle"
           /\ CarriesIntentAndError(ex[e].ctx)
           /\ Len(handlerLog[e]) <= 1
           /\ \A k \in 1..Len(handlerLog[e]) : CarriesIntentAndError(handlerLog[e][k])

\* C20 witness: the hotel branch failed while the weather and events branches
\* were both still running; both were stopped and the handler has run with
\* the intent and the error.
C20_Witness ==
    \E e \in Execs :
        /\ ex[e].task["HotelSearch"] = "failed"
        /\ ex[e].task["WeatherSearch"] = "aborted"
        /\ ex[e].task["EventsSearch"] = "aborted"
        /\ Len(handlerLog[e]) = 1
        /\ CarriesIntentAndError(handlerLog[e][1])

\* C21 (as claimed): each workflow task is attempted at most 2 times before
\* control is routed to the error handler: a task that failed was retried up
\* to that bound (its failure reaches the handler after its second attempt)
\* and never beyond it.
C21_RetriedUpToTwoAttempts ==
    \A e \in Execs : \A t \in TaskNames \ {"HandleError"} :
        /\ ex[e].attempts[t] <= 2
        /\ ex[e].task[t] = "failed" => ex[e].attempts[t] = 2

\* C22: when the error-handler task itself fails, the execution ends as
\* Failed with the handler as the failing node: the handler was invoked once
\* and is not invoked again, nothing is retried or resumed, and no task is
\* running or starts afterwards.
C22_HandlerFailureIsFatal ==
    \A e \in Execs :
        ex[e].task["HandleError"] = "failed"
        => /\ ex[e].state = "Failed"
           /\ ex[e].outcome = "HandlerFailed"
           /\ ex[e].routed = 1
           /\ ex[e].attempts["HandleError"] = 1
           /\ Len(handlerLog[e]) = 1
           /\ \A t \in TaskNames : ex[e].attempts[t] <= 1 /\ ex[e].task[t] # "running"
           /\ ex[e].task["DeliverEmail"] \in {"idle", "failed"}

\* C22 witness: the synthesis task failed, the handler was started for it
\* and failed in turn; the execution is Failed.
C22_Witness ==
    \E e \in Execs :
        /\ ex[e].task["SynthesizeResults"] = "failed"
        /\ ex[e].task["HandleError"] = "failed"
        /\ ex[e].state = "Failed"

\* C23 (as claimed): at every moment every record of the store has a status
\* that is PENDING, COMPLETED or FAILED (PENDING from its creation by the
\* broker on), and a record whose status is FAILED carries a cause.
C23_RecordStatusInTaxonomy ==
    \A k \in TableKeys :
        ItemExists(store[k])
        => /\ "status" \in store[k].attrs
           /\ store[k].status \in {"PENDING", "COMPLETED", "FAILED"}
           /\ store[k].status = "FAILED"
              => "error" \in store[k].attrs /\ store[k].errorLen > 0

\* C24 (as claimed): every submission to the intake handler with non-empty
\* input is answered 202 with its request id; a response other than 202 is
\* returned only when the input is empty.
C24_NonEmptyAlwaysAccepted ==
    \A s \in Subs :
        sub[s].pc = "done"
        => /\ sub[s].input # "" => sub[s].code = 202 /\ sub[s].requestId = Sha256(sub[s].input)
           /\ sub[s].code # 202 => sub[s].input = ""

\* C24 (amended): a submission with non-empty input is answered 202, with the
\* request id of its input, exactly when its event was published on the bus;
\* when the bus did not take the event the answer is 500 and no event exists;
\* the answer is 400 exactly when the input is empty.
C24_AcceptedIffPublished ==
    \A s \in Subs :
        sub[s].pc = "done"
        => /\ sub[s].code \in {202, 400, 500}
           /\ sub[s].code = 400 <=> sub[s].input = ""
           /\ sub[s].code = 202 <=> (sub[s].input # "" /\ sub[s].published = 1)
           /\ sub[s].code = 202 => sub[s].requestId = Sha256(sub[s].input)
           /\ sub[s].code # 202 => sub[s].published = 0 /\ sub[s].ev = "none"

\* C24 witness: a travel request was submitted, its event was published and
\* the answer is 202 with the fingerprint of the input.
C24_Witness ==
    \E s \in Subs :
        /\ sub[s].pc = "done" /\ sub[s].input = "trip A"
        /\ sub[s].code = 202 /\ sub[s].published = 1
        /\ sub[s].requestId = Sha256("trip A")

\* C25: the fingerprint is a function of the input text alone (its SHA-256):
\* intake's request id, the broker's own hash and the key the broker takes
\* from an event are the same value for the same text.  For every submission
\* that goes intake -> bus -> broker, the key the broker reads and writes
\* under is the request id intake returned, and every record in the store is
\* under the request id of an accepted submission.
C25_BrokerKeyIsIntakeRequestId ==
    /\ \A t \in Texts :
          /\ IntakeStep(IdleSub, t, "ok").requestId = Sha256(t)
          /\ RequestHash("detail", t) = IntakeStep(IdleSub, t, "ok").requestId
          /\ RequestHash("direct", t) = IntakeStep(IdleSub, t, "ok").requestId
    /\ \A s \in Subs :
          (sub[s].ev = "running" /\ inv[sub[s].run].pc \notin {"idle", "crashed"})
          => /\ inv[sub[s].run].input = sub[s].input
             /\ inv[sub[s].run].key = sub[s].requestId
             /\ inv[sub[s].run].wrote => ItemExists(store[sub[s].requestId])
    /\ \A k \in TableKeys :
          ItemExists(store[k])
          => \E s \in Subs : sub[s].code = 202 /\ sub[s].requestId = k

\* C25 witness: a submission was accepted, its event was handled by the
\* broker, and the record is in the store under the request id intake returned.
C25_Witness ==
    \E s \in Subs :
        /\ sub[s].code = 202 /\ sub[s].ev = "handled"
        /\ sub[s].requestId = Sha256(sub[s].input)
        /\ ItemExists(store[sub[s].requestId])

\* C26 (as claimed): the execution context is append-only: the seed intent
\* stays, each completed step's output stays under its own key, so the
\* context delivery receives (and the one the error handler receives after a
\* delivery failure) still holds the intent, the flight output and the
\* parallel results.
C26_ContextAppendOnly ==
    \A e \in Execs :
        /\ ex[e].state # "NotStarted"
           => {"requestId", "extracted"} \subseteq ex[e].ctx.keys
        /\ ex[e].task["FlightSearch"] = "succeeded"
           => "flight_output" \in ex[e].ctx.keys
        /\ (\A b \in BranchSet : ex[e].task[b] = "succeeded")
           => "parallel_results" \in ex[e].ctx.keys
        /\ (ex[e].task["DeliverEmail"] = "failed" /\ Len(handlerLog[e]) > 0)
           => {"extracted", "flight_output", "parallel_results"}
                 \subseteq handlerLog[e][1].keys

\* the records of the store and the texts some invocation has written
Records == {k \in TableKeys : ItemExists(store[k])}
WrittenTexts == {inv[i].input : i \in {j \in Invs : inv[j].wrote}}

\* C27 (as claimed): after any submissions of a text, repeated or concurrent,
\* the store holds exactly one record under the text's fingerprint.
C27_ExactlyOneRecord ==
    \A t \in Texts :
        (\E i \in Invs : inv[i].input = t /\ inv[i].pc = "done")
        => Cardinality({k \in Records : k = Sha256(t)}) = 1

\* C27 (amended): the store holds at most one record per text, under the
\* text's fingerprint, and it holds that record exactly when some broker
\* invocation for the text has written successfully: repeated and concurrent
\* submissions never add a second record or a record under another key; a
\* submission whose backend call or write failed leaves none.
C27_OneRecordOnceWritten ==
    /\ \A t \in Texts :
          /\ ItemExists(store[Sha256(t)]) <=> t \in WrittenTexts
          /\ ItemExists(store[Sha256(t)])
             => \E i \in Invs : /\ inv[i].input = t /\ inv[i].wrote
                                /\ store[Sha256(t)].result = inv[i].result
    /\ Records \subseteq Keys
    /\ Cardinality(Records) = Cardinality(WrittenTexts)

\* C27 witness: two invocations for the same text ran concurrently, both
\* called the backend and both wrote; the store holds one record.
C27_Witness ==
    /\ inv[1].input = "trip A" /\ inv[2].input = "trip A"
    /\ inv[1].wrote /\ inv[2].wrote
    /\ Records = {Sha256("trip A")}

\* C28 (as claimed): the broker persists with put-if-absent semantics: once a
\* record exists under a fingerprint, no step of a later or concurrent broker
\* invocation replaces it, so its result and every other attribute of it
\* stay as they are.
C28_PutIfAbsent ==
    [][\A k \in TableKeys : ItemExists(store[k]) => store'[k] = store[k]]_vars

\* C29: the failure cause the error handler persists on a record is at most
\* 1000 characters long for every error descriptor it receives: a cause
\* longer than that is cut to 1000, a shorter one is kept whole, and a
\* descriptor with no Cause is persisted as "Unknown Error" (13 characters).
C29_PersistedCauseBounded ==
    \A k \in TableKeys :
        "error" \in store[k].attrs
        => /\ store[k].errorLen >= 0 /\ store[k].errorLen <= 1000
           /\ \E d \in ErrorDescriptors :
                 store[k].errorLen =
                    IF d.causeLen < 0 THEN UnknownErrorLen
                    ELSE IF d.causeLen > 1000 THEN 1000 ELSE d.causeLen

\* C29 witness: the handler received a descriptor whose Cause is longer than
\* 1000 characters and persisted it on the record, cut to 1000.
C29_Witness ==
    \E e \in Execs :
        /\ Len(handlerLog[e]) = 1
        /\ handlerLog[e][1].errors[1].causeLen > 1000
        /\ "error" \in store[handlerLog[e][1].requestId].attrs
        /\ store[handlerLog[e][1].requestId].errorLen = 1000

\* C30 (as claimed): a failed generation-backend call of the synthesis step
\* is a failure of that step: the step never succeeds with a narrative built
\* from the error, and no record is marked COMPLETED with such a narrative.
C30_SynthesisBackendFailureFailsStep ==
    /\ \A e \in Execs :
          ex[e].task["SynthesizeResults"] = "succeeded"
          => ex[e].ctx.narrative # "Unable to generate narrative"
    /\ \A k \in TableKeys :
          ~(store[k].status = "COMPLETED"
              /\ store[k].narrative = "Unable to generate narrative")

\* the step of execution e that ends its task `node`, for the record under k
EndsTask(e, node, k) ==
    /\ ex[e].task[node] = "running"
    /\ ex'[e].task[node] \in {"succeeded", "failed"}
    /\ ex[e].ctx.requestId = k

\* C31: a record's status is set to COMPLETED only by the delivery step and
\* to FAILED only by the error-handler step: the item the broker writes has
\* no status, and in the workflow every step that changes a record's status
\* is either the end of a delivery task, which sets COMPLETED, or the end of
\* an error-handler task, which sets FAILED; the flight, hotel, weather,
\* events and synthesis steps leave every status as it is.
C31_StatusWriters ==
    /\ \A i \in Invs :
          /\ "status" \notin BrokerItem(CompleteRaw, i).attrs
          /\ BrokerItem(CompleteRaw, i).status = ""
    /\ [][\A k \in TableKeys :
            \/ /\ store'[k].status = store[k].status
               /\ ("status" \in store'[k].attrs) = ("status" \in store[k].attrs)
            \/ /\ store'[k].status = "COMPLETED"
               /\ \E e \in Execs : EndsTask(e, "DeliverEmail", k)
            \/ /\ store'[k].status = "FAILED"
               /\ \E e \in Execs : EndsTask(e, "HandleError", k)]_vars

\* C31 witness: both writers acted on one record: the delivery task failed
\* after its update (delivery_timestamp is set) and the error handler then
\* set FAILED.
C31_Witness ==
    \E e \in Execs :
        /\ ex[e].task["DeliverEmail"] = "failed"
        /\ ex[e].task["HandleError"] = "succeeded"
        /\ "delivery_timestamp" \in store[ex[e].ctx.requestId].attrs
        /\ store[ex[e].ctx.requestId].status = "FAILED"

\* C32 (as claimed): after any interleaving of broker writes (which may
\* fail), delivery updates and error-handler updates, every record present
\* in the store has a result attribute.
C32_EveryRecordHasResult ==
    \A k \in TableKeys : ItemExists(store[k]) => "result" \in store[k].attrs

\* C33 (as claimed): terminal status is stable: no step changes a record's
\* status from COMPLETED to FAILED or from FAILED to COMPLETED.
C33_TerminalStatusStable ==
    [][\A k \in TableKeys :
          /\ store[k].status = "COMPLETED" => store'[k].status # "FAILED"
          /\ store[k].status = "FAILED" => store'[k].status # "COMPLETED"]_vars

\* C34 (as claimed): on a cache hit the broker returns the stored result and
\* leaves everything else unchanged: the invocation answers 200 with the
\* result some earlier invocation stored under the key, it makes no backend
\* call and no store write.
C34_CacheHitReturnsStoredResult ==
    \A i \in Invs :
        inv[i].hit
        => /\ inv[i].pc = "done" /\ inv[i].code = 200
           /\ ~inv[i].called /\ ~inv[i].wrote
           /\ \E j \in Invs \ {i} :
                 /\ inv[j].wrote /\ inv[j].key = inv[i].key
                 /\ inv[i].bodyResult = inv[j].result

\* the steps before delivery have all completed in this execution
AllBeforeDeliveryDone(rec) ==
    /\ rec.task["FlightSearch"] = "succeeded"
    /\ \A b \in BranchSet : rec.task[b] = "succeeded"
    /\ rec.task["SynthesizeResults"] = "succeeded"

\* C35: within one execution the delivery task starts only after the flight
\* task, the three branches and the synthesis task have each completed, and
\* never in an execution in which an earlier step was routed to the error
\* handler (the only failure a delivering execution can have is the delivery
\* task's own); every step that writes COMPLETED on a record is the end of
\* the delivery task of such an execution.
C35_CompletedOnlyAfterAllSteps ==
    /\ [](\A e \in Execs :
            ex[e].task["DeliverEmail"] # "idle"
            => /\ AllBeforeDeliveryDone(ex[e])
               /\ ex[e].routed = 1 => ex[e].task["DeliverEmail"] = "failed"
               /\ ex[e].task["HandleError"] # "idle"
                  => ex[e].task["DeliverEmail"] = "failed")
    /\ [][\A k \in TableKeys :
            (store'[k].status = "COMPLETED" /\ store'[k] # store[k])
            => \E e \in Execs : /\ EndsTask(e, "DeliverEmail", k)
                                /\ AllBeforeDeliveryDone(ex[e])
                                /\ ex[e].routed = 0]_vars

\* C35 witness: an execution ran all its steps, delivery wrote COMPLETED on
\* its record, and no step of it was routed to the error handler.
C35_Witness ==
    \E e \in Execs :
        /\ ex[e].outcome = "Delivered" /\ ex[e].routed = 0
        /\ AllBeforeDeliveryDone(ex[e])
        /\ store[ex[e].ctx.requestId].status = "COMPLETED"

\* C36: the intake handler publishes exactly one event for a submission it
\* answers 202 and none for one it answers 400; it answers 202 only after
\* the bus reported no failed entry; the published event's detail carries
\* the request id and the correlation id returned to the client, and the
\* submitted input.
C36_OneEventPerAcceptedSubmission ==
    \A s \in Subs :
        sub[s].pc = "done"
        => /\ sub[s].code = 202
              => /\ sub[s].published = 1
                 /\ sub[s].putOutcome = "ok"
                 /\ sub[s].detail.requestId = sub[s].requestId
                 /\ sub[s].detail.correlationId = sub[s].correlationId
                 /\ sub[s].detail.input = sub[s].input
                 /\ sub[s].requestId # "" /\ sub[s].correlationId # ""
           /\ sub[s].code = 400
              => /\ sub[s].published = 0 /\ sub[s].ev = "none"
                 /\ sub[s].detail = NoDetail /\ sub[s].putOutcome = ""
           /\ sub[s].published <= 1

\* C36 witness: an accepted submission whose one event has been handed to
\* the broker, which runs on the detail intake built.
C36_Witness ==
    \E s \in Subs :
        /\ sub[s].code = 202 /\ sub[s].published = 1
        /\ sub[s].ev = "running"
        /\ inv[sub[s].run].input = sub[s].detail.input
        /\ sub[s].detail.correlationId = sub[s].correlationId

\* C37: an event reaches the dead-letter queue only if every broker attempt
\* made for it ended in an unhandled fault.  A broker invocation that ends
\* with a response (an empty-input 400, a backend-failure 500, a 200) returns
\* a value: its event is settled as handled after that one attempt, it is
\* not retried and not dead-lettered, and nothing happens to it afterwards.
C37_ReturnedValueNeverDeadLettered ==
    /\ [](\A s \in Subs :
            /\ sub[s].ev = "dlq" => sub[s].faulted = sub[s].attempts
            /\ sub[s].lastCode # 0
               => /\ sub[s].ev = "handled"
                  /\ sub[s].lastCode \in {200, 400, 500}
                  /\ sub[s].attempts = sub[s].faulted + 1
            /\ sub[s].ev = "handled" => sub[s].lastCode # 0)
    /\ [][\A s \in Subs : sub[s].ev = "handled" => sub'[s] = sub[s]]_vars

\* C37 witness: the broker's backend call failed, the invocation answered
\* 500, and the event is settled as handled after its single attempt.
C37_Witness ==
    \E s \in Subs :
        /\ sub[s].ev = "handled" /\ sub[s].lastCode = 500
        /\ sub[s].attempts = 1 /\ sub[s].faulted = 0

\* the part of a result the policy has no business with
Untouched(r) ==
    <<r.exKind, r.origin_city, r.destination, r.budget_cad, r.travel_dates,
      r.budget_warning, r.meta>>

NoDuplicates(seq) == \A i, j \in 1..Len(seq) : seq[i] = seq[j] => i = j

\* C38: _enforce_status_rules is idempotent: applied to its own output it
\* does not fault and returns the same status, the same missing_fields in
\* the same order and without duplicates, and the same clarification_needed;
\* neither application changes extracted, budget_warning or _meta.
C38_PolicyIdempotent ==
    ppc = "twice"
    => /\ ~out2.fault
       /\ out2.result.status = out.result.status
       /\ out2.result.missing_fields = out.result.missing_fields
       /\ NoDuplicates(out2.result.missing_fields)
       /\ out2.result.clarification_needed = out.result.clarification_needed
       /\ Untouched(out.result) = Untouched(raw)
       /\ Untouched(out2.result) = Untouched(raw)
       /\ out2.result = out.result

\* C38 witness: the policy was applied twice to an output whose asserted
\* list repeated an entry and missed others, and whose clarification it had
\* to synthesize.
C38_Witness ==
    /\ ppc = "twice"
    /\ Len(raw.missing_fields) > Cardinality(Range(raw.missing_fields))
    /\ ~Truthy(raw.clarification_needed)
    /\ Len(out2.result.missing_fields) > 1
    /\ out2.result.status = NEEDS

====
